---------------------------- MODULE Spec2Model ----------------------------
(***************************************************************************)
(* A model of go-crypto-suite: the algorithm registry, key import and      *)
(* stretching, the AES-CBC / AES-GCM / HMAC / ECDSA keys of package crypto *)
(* and the Argon2 password-hash key of package argon2.                     *)
(*                                                                         *)
(* Byte sequences and texts are sequences of numbers in 0..255 (a Go       *)
(* string and a []byte hold the same bytes; string(b) and []byte(s) copy   *)
(* them unchanged).  The wire envelope is built and parsed character by    *)
(* character: strconv.Itoa / Atoi, strings.SplitN and the standard base64  *)
(* codec are computed as the library computes them.  The primitives below  *)
(* the library boundary (the AES block permutation, the GCM tag, SHA/HMAC, *)
(* PBKDF2, ECDSA, Argon2) are deterministic stand-ins with the right       *)
(* input/output lengths.  A []byte is a view of an array: where the code   *)
(* keeps or appends to a slice of the caller, the caller's array is part   *)
(* of the state.                                                           *)
(***************************************************************************)
EXTENDS Integers, Sequences, FiniteSets, TLC

VARIABLES key, pub, env, res, buf, keyShares, calls

vars == <<key, pub, env, res, buf, keyShares, calls>>

\* the memory of the caller: a byte array it owns (buf), whether the slice
\* the key holds is a slice of that array (keyShares), and the calls of
\* Encrypt it has in flight on slices of that array (calls)
mem == <<buf, keyShares, calls>>

\* a caller that hands the package values only
NoCallerMemory == buf = <<>> /\ keyShares = FALSE /\ calls = <<>>

-----------------------------------------------------------------------------
(* Bounds of the model *)

\* number of distinct values the random source may yield for an IV / nonce / salt
NumRand == 2
\* length, in cipher blocks, of the longest plaintext
MaxBlocks == 2

-----------------------------------------------------------------------------
(* Bytes and texts *)

\* the sum of the first n bytes of s
RECURSIVE SumTo(_, _)
SumTo(s, n) == IF n = 0 THEN 0 ELSE s[n] + SumTo(s, n - 1)

SumSeq(s) == SumTo(s, Len(s))

\* a position-weighted checksum of the first n bytes of s
RECURSIVE WSumTo(_, _)
WSumTo(s, n) == IF n = 0 THEN 0 ELSE ((n * s[n]) + WSumTo(s, n - 1)) % 65536

WSum(s) == WSumTo(s, Len(s))

\* a function over 1..n as a sequence held by value
AsSeq(f) == f \o <<>>

Repeat(b, n) == AsSeq([i \in 1..n |-> b])

Drop(s, n) == SubSeq(s, n + 1, Len(s))
Take(s, n) == SubSeq(s, 1, n)

\* index of the first occurrence of character c in s, 0 when there is none
RECURSIVE IndexFrom(_, _, _)
IndexFrom(s, c, i) ==
    IF i > Len(s) THEN 0
    ELSE IF s[i] = c THEN i ELSE IndexFrom(s, c, i + 1)

IndexByte(s, c) == IndexFrom(s, c, 1)

\* strings.SplitN(s, sep, n) for a one-character separator and n >= 1
RECURSIVE SplitN(_, _, _)
SplitN(s, sep, n) ==
    LET i == IndexByte(s, sep)
    IN  IF n = 1 \/ i = 0 THEN <<s>>
        ELSE <<Take(s, i - 1)>> \o SplitN(Drop(s, i), sep, n - 1)

SplitN2(s, sep) == SplitN(s, sep, 2)

IsDigit(c) == c >= 48 /\ c <= 57

RECURSIVE DigitsOf(_)
DigitsOf(n) == IF n < 10 THEN <<48 + n>> ELSE Append(DigitsOf(n \div 10), 48 + (n % 10))

\* strconv.Itoa
Itoa(n) == IF n < 0 THEN <<45>> \o DigitsOf(0 - n) ELSE DigitsOf(n)

RECURSIVE DigitsValue(_)
DigitsValue(s) == IF Len(s) = 0 THEN 0
                  ELSE (10 * DigitsValue(SubSeq(s, 1, Len(s) - 1))) + (s[Len(s)] - 48)

\* strconv.Atoi: an optional sign, then at least one decimal digit (the texts
\* of the model are short, so the value is always within the range of int)
Atoi(s) ==
    LET signed == Len(s) > 0 /\ (s[1] = 43 \/ s[1] = 45)
        digits == IF signed THEN Tail(s) ELSE s
        wellFormed == /\ Len(digits) > 0
                      /\ \A i \in 1..Len(digits) : IsDigit(digits[i])
    IN  IF ~wellFormed THEN [ok |-> FALSE, n |-> 0]
        ELSE [ok |-> TRUE,
              n  |-> IF signed /\ s[1] = 45 THEN 0 - DigitsValue(digits)
                     ELSE DigitsValue(digits)]

-----------------------------------------------------------------------------
(* encoding/base64, StdEncoding and RawStdEncoding *)

PadChar == 61

B64Char(v) ==
    IF v < 26 THEN 65 + v
    ELSE IF v < 52 THEN 97 + (v - 26)
    ELSE IF v < 62 THEN 48 + (v - 52)
    ELSE IF v = 62 THEN 43 ELSE 47

\* the 6-bit value of an alphabet character, -1 for any other character
B64Val(c) ==
    IF c >= 65 /\ c <= 90 THEN c - 65
    ELSE IF c >= 97 /\ c <= 122 THEN c - 97 + 26
    ELSE IF c >= 48 /\ c <= 57 THEN c - 48 + 52
    ELSE IF c = 43 THEN 62
    ELSE IF c = 47 THEN 63
    ELSE 0 - 1

\* byte i of b, 0 past its end
ByteAt(b, i) == IF i <= Len(b) THEN b[i] ELSE 0

\* character c (0..3) of the quantum that encodes bytes x, y, z
QuantumChar(x, y, z, c) ==
    IF c = 0 THEN B64Char(x \div 4)
    ELSE IF c = 1 THEN B64Char(((x % 4) * 16) + (y \div 16))
    ELSE IF c = 2 THEN B64Char(((y % 16) * 4) + (z \div 64))
    ELSE B64Char(z % 64)

\* 3 bytes become 4 characters; a last group of 1 or 2 bytes becomes 2 or 3
\* characters, and with padding '=' fills the quantum
B64Encode(b, padded) ==
    LET n == Len(b)
        full == 4 * ((n + 2) \div 3)
        used == (4 * (n \div 3)) + (IF n % 3 = 0 THEN 0 ELSE (n % 3) + 1)
    IN  AsSeq([i \in 1..(IF padded THEN full ELSE used) |->
            IF i > used THEN PadChar
            ELSE LET q == (i - 1) \div 4
                 IN  QuantumChar(ByteAt(b, (3 * q) + 1), ByteAt(b, (3 * q) + 2),
                                 ByteAt(b, (3 * q) + 3), (i - 1) % 4)])

EncodeToString(b) == B64Encode(b, TRUE)
RawEncodeToString(b) == B64Encode(b, FALSE)

\* the decoder skips carriage returns and line feeds
NotNewline(c) == c # 10 /\ c # 13
StripNewlines(s) == SelectSeq(s, NotNewline)

\* byte j (0..2) of the quantum of characters with values a, b, c, d
QuantumByte(a, b, c, d, j) ==
    IF j = 0 THEN (a * 4) + (b \div 16)
    ELSE IF j = 1 THEN ((b % 16) * 16) + (c \div 4)
    ELSE ((c % 4) * 64) + d

\* the bytes of a run of alphabet characters whose length is 0, 2 or 3 modulo 4
B64Quanta(s) ==
    LET n == Len(s)
        out == (3 * (n \div 4)) + (IF n % 4 = 0 THEN 0 ELSE (n % 4) - 1)
        val(i) == IF i <= n THEN B64Val(s[i]) ELSE 0
    IN  AsSeq([i \in 1..out |->
            LET q == (i - 1) \div 3
            IN  QuantumByte(val((4 * q) + 1), val((4 * q) + 2), val((4 * q) + 3),
                            val((4 * q) + 4), (i - 1) % 3)])

\* DecodeString: [ok, data].  With padding the text (newlines dropped) is a
\* whole number of 4-character quanta, '=' only as the last one or two
\* characters; without padding '=' is no character of the alphabet.
B64Decode(text, padded) ==
    LET s == StripNewlines(text)
        n == Len(s)
        npad == IF padded /\ n >= 2 /\ s[n] = PadChar
                THEN (IF s[n - 1] = PadChar THEN 2 ELSE 1)
                ELSE 0
        body == Take(s, n - npad)
        shape == IF padded THEN n % 4 = 0 ELSE n % 4 # 1
    IN  IF shape /\ \A i \in 1..Len(body) : B64Val(body[i]) >= 0
        THEN [ok |-> TRUE, data |-> B64Quanta(body)]
        ELSE [ok |-> FALSE, data |-> <<>>]

DecodeString(text) == B64Decode(text, TRUE)
RawDecodeString(text) == B64Decode(text, FALSE)

-----------------------------------------------------------------------------
(* algorithm.go: the algorithm registry *)

\* the bases of the three families of algorithms
HashType == 100
SymmetricType == 200
AsymmetricType == 300

HmacSha256 == 101
HmacSha512 == 102
AesCbc128 == 201
AesCbc192 == 202
AesCbc256 == 203
AesGcm128 == 204
AesGcm192 == 205
AesGcm256 == 206
EcdsaP256 == 301
EcdsaP384 == 302
Rsa1024 == 303
Rsa2048 == 304
Rsa4096 == 305

HmacAlgorithms == {HmacSha256, HmacSha512}
AesCbcAlgorithms == {AesCbc128, AesCbc192, AesCbc256}
AesGcmAlgorithms == {AesGcm128, AesGcm192, AesGcm256}
AesAlgorithms == AesCbcAlgorithms \cup AesGcmAlgorithms
EcdsaAlgorithms == {EcdsaP256, EcdsaP384}
RsaAlgorithms == {Rsa1024, Rsa2048, Rsa4096}

\* the map algorithmsType: Algorithm -> AlgorithmType
algorithmsType ==
    (HmacSha256 :> "HMAC_SHA256") @@ (HmacSha512 :> "HMAC_SHA512") @@
    (AesCbc128 :> "AES_CBC_128") @@ (AesCbc192 :> "AES_CBC_192") @@
    (AesCbc256 :> "AES_CBC_256") @@ (AesGcm128 :> "AES_GCM_128") @@
    (AesGcm192 :> "AES_GCM_192") @@ (AesGcm256 :> "AES_GCM_256") @@
    (EcdsaP256 :> "ECDSA_P256") @@ (EcdsaP384 :> "ECDSA_P384") @@
    (Rsa1024 :> "RSA_1024") @@ (Rsa2048 :> "RSA_2048") @@ (Rsa4096 :> "RSA_4096")

\* the identifiers declared as Type... constants
AlgorithmTypes ==
    {"HMAC_SHA256", "HMAC_SHA512", "AES_CBC_128", "AES_CBC_192", "AES_CBC_256",
     "AES_GCM_128", "AES_GCM_192", "AES_GCM_256", "ECDSA_P256", "ECDSA_P384",
     "RSA_1024", "RSA_2048", "RSA_4096"}

\* a map in which the entry of AES_GCM_256 repeats the value of the entry above it
algorithms_RepeatedValue ==
    ("HMAC_SHA256" :> HmacSha256) @@ ("HMAC_SHA512" :> HmacSha512) @@
    ("AES_CBC_128" :> AesCbc128) @@ ("AES_CBC_192" :> AesCbc192) @@
    ("AES_CBC_256" :> AesCbc256) @@ ("AES_GCM_128" :> AesGcm128) @@
    ("AES_GCM_192" :> AesGcm192) @@ ("AES_GCM_256" :> AesGcm192) @@
    ("ECDSA_P256" :> EcdsaP256) @@ ("ECDSA_P384" :> EcdsaP384) @@
    ("RSA_1024" :> Rsa1024) @@ ("RSA_2048" :> Rsa2048) @@ ("RSA_4096" :> Rsa4096)

\* the map algorithms: AlgorithmType -> Algorithm
algorithms ==
    ("HMAC_SHA256" :> HmacSha256) @@ ("HMAC_SHA512" :> HmacSha512) @@
    ("AES_CBC_128" :> AesCbc128) @@ ("AES_CBC_192" :> AesCbc192) @@
    ("AES_CBC_256" :> AesCbc256) @@ ("AES_GCM_128" :> AesGcm128) @@
    ("AES_GCM_192" :> AesGcm192) @@ ("AES_GCM_256" :> AesGcm256) @@
    ("ECDSA_P256" :> EcdsaP256) @@ ("ECDSA_P384" :> EcdsaP384) @@
    ("RSA_1024" :> Rsa1024) @@ ("RSA_2048" :> Rsa2048) @@ ("RSA_4096" :> Rsa4096)

RegisteredAlgorithms == DOMAIN algorithmsType

\* a missing map entry reads as the zero value
GetTypeByAlgorithm(algorithm) ==
    IF algorithm \in DOMAIN algorithmsType THEN algorithmsType[algorithm] ELSE ""

GetAlgorithmByType(typ) ==
    IF typ \in DOMAIN algorithms THEN algorithms[typ] ELSE 0

-----------------------------------------------------------------------------
(* the errors of the package; "nil" is no error *)

ErrEmptyKey == "key cannot be empty"
ErrUnsupportedKey == "unsupported key type, only string or []byte keys are allowed"
ErrUnsupportedMethod == "this method is not applicable for the given key type"
ErrNotFoundImporter == "not found key importer"
ErrUnsupportedAes == "unsupported aes algorithm"
ErrInvalidData == "invalid encrypted data"
ErrTypeNotNumber == "type is not a number"
ErrInvalidAlgorithm == "invalid algorithm type"
ErrBase64 == "ciphertext decodeing base64 error"
ErrNewCipher == "new aes chipher error"
ErrRandom == "random iv error"
ErrTooShort == "encrypted data too short"
ErrGcmOpen == "gcm open error"

-----------------------------------------------------------------------------
(* keys and key import *)

\* a value of interface type Key[T]; kind "nil" is the nil interface
NoKey == [kind |-> "nil", key |-> <<>>, algorithm |-> 0]

\* raw key material as the caller passes it (interface{}): a []byte, a
\* string, or a value of another type
Bytes(data) == [type |-> "bytes", data |-> data]
String(data) == [type |-> "string", data |-> data]
OtherType == [type |-> "other", data |-> <<>>]

\* a conversion that accepts the empty text
checkAndConvertKey_EmptyText(raw) ==
    IF raw.type = "bytes" THEN
        IF Len(raw.data) = 0 THEN [key |-> <<>>, err |-> ErrEmptyKey]
        ELSE [key |-> raw.data, err |-> "nil"]
    ELSE IF raw.type = "string" THEN [key |-> raw.data, err |-> "nil"]
    ELSE [key |-> <<>>, err |-> ErrUnsupportedKey]

checkAndConvertKey(raw) ==
    IF raw.type = "bytes" THEN
        IF Len(raw.data) = 0 THEN [key |-> <<>>, err |-> ErrEmptyKey]
        ELSE [key |-> raw.data, err |-> "nil"]
    ELSE IF raw.type = "string" THEN
        IF raw.data = <<>> THEN [key |-> <<>>, err |-> ErrEmptyKey]
        ELSE [key |-> raw.data, err |-> "nil"]
    ELSE [key |-> <<>>, err |-> ErrUnsupportedKey]

Pbkdf2Iterations == 1000

\* pbkdf2.Key(password, salt, iter, keyLen, sha256.New): keyLen bytes that
\* depend on the password, the salt and the iteration count
pbkdf2Key(password, salt, iter, keyLen) ==
    LET seed == (WSum(password) * 7) + (WSum(salt) * 3) + Len(password) + iter
    IN  AsSeq([i \in 1..keyLen |-> (seed + (31 * i)) % 256])

aesKeyLen(alg) ==
    IF alg \in {AesCbc128, AesGcm128} THEN 128 \div 8
    ELSE IF alg \in {AesCbc192, AesGcm192} THEN 192 \div 8
    ELSE 256 \div 8

\* a stretch of the material that is too short only
aesStretch_ShortOnly(k, keyLen) ==
    IF Len(k) < keyLen THEN pbkdf2Key(k, k, Pbkdf2Iterations, keyLen) ELSE k

\* the key aesKeyImportImpl.KeyImport stores: material of the required
\* length as it is, any other material stretched
aesStretch(k, keyLen) ==
    IF Len(k) # keyLen THEN pbkdf2Key(k, k, Pbkdf2Iterations, keyLen) ELSE k

\* [key, err, panicked]
aesKeyImportImpl_KeyImport(raw, alg) ==
    LET c == checkAndConvertKey(raw)
    IN  IF c.err # "nil" THEN [key |-> NoKey, err |-> c.err, panicked |-> FALSE]
        ELSE IF alg \notin AesAlgorithms
        THEN [key |-> NoKey, err |-> "nil", panicked |-> TRUE]
        ELSE [key |-> [kind |-> IF alg \in AesCbcAlgorithms THEN "aesCbc" ELSE "aesGcm",
                       key |-> aesStretch(c.key, aesKeyLen(alg)),
                       algorithm |-> alg],
              err |-> "nil", panicked |-> FALSE]

hmacShaKeyImportImpl_KeyImport(raw, alg) ==
    LET c == checkAndConvertKey(raw)
    IN  IF c.err # "nil" THEN [key |-> NoKey, err |-> c.err, panicked |-> FALSE]
        ELSE IF alg \in {HmacSha256, HmacSha512}
        THEN [key |-> [kind |-> "hmac", key |-> c.key, algorithm |-> alg],
              err |-> "nil", panicked |-> FALSE]
        ELSE [key |-> NoKey, err |-> ErrUnsupportedAes, panicked |-> FALSE]

\* crypto.KeyImport: dispatch on the algorithm, then the importer
KeyImport(raw, alg) ==
    IF alg \in {HmacSha256, HmacSha512} THEN hmacShaKeyImportImpl_KeyImport(raw, alg)
    ELSE IF alg \in {AesCbc128, AesCbc192, AesCbc256, AesGcm128, AesGcm192, AesGcm256}
    THEN aesKeyImportImpl_KeyImport(raw, alg)
    ELSE [key |-> NoKey, err |-> ErrNotFoundImporter, panicked |-> FALSE]

\* whether the key KeyImport returns holds the very slice the caller passed:
\* checkAndConvertKey returns a []byte as it is and converts a string to
\* bytes of its own; the HMAC importer stores what it got, the AES importer
\* stores it unless it stretches it into a new slice
KeyImportShares(raw, alg) ==
    /\ raw.type = "bytes"
    /\ KeyImport(raw, alg).err = "nil"
    /\ ~KeyImport(raw, alg).panicked
    /\ (alg \in HmacAlgorithms \/ Len(raw.data) = aesKeyLen(alg))

-----------------------------------------------------------------------------
(* the primitives AES keys are built on *)

BlockSize == 16
GcmNonceSize == 12
GcmTagSize == 16

\* randomSize(len): the random source either fails (r < 0) or yields len
\* bytes; r selects which
randomSize(len, r) ==
    IF r < 0 THEN [ok |-> FALSE, bytes |-> <<>>]
    ELSE [ok |-> TRUE, bytes |-> AsSeq([j \in 1..len |-> ((r * 85) + (j * r * 3)) % 256])]

\* aes.NewCipher accepts keys of 16, 24 or 32 bytes
aesNewCipher(k) == Len(k) \in {16, 24, 32}

\* the key schedule, reduced to one byte
KeySchedule(k) == WSum(k) % 256

\* the block permutation of the cipher under schedule ks, and its inverse
EncryptBlock(ks, blk) == AsSeq([i \in 1..BlockSize |-> (blk[i] + ks + (17 * i)) % 256])
DecryptBlock(ks, blk) ==
    AsSeq([i \in 1..BlockSize |-> (blk[i] + 512 - ks - ((17 * i) % 256)) % 256])

\* the combination of a block with the previous ciphertext block (the
\* exclusive or of CBC), and what undoes it
MixBlock(a, b) == AsSeq([i \in 1..BlockSize |-> (a[i] + b[i]) % 256])
UnmixBlock(a, b) == AsSeq([i \in 1..BlockSize |-> (a[i] + 256 - b[i]) % 256])

\* cipher.NewCBCEncrypter(block, iv).CryptBlocks on whole blocks
RECURSIVE cbcEncrypt(_, _, _)
cbcEncrypt(ks, prev, src) ==
    IF Len(src) = 0 THEN <<>>
    ELSE LET c == EncryptBlock(ks, MixBlock(Take(src, BlockSize), prev))
         IN  c \o cbcEncrypt(ks, c, Drop(src, BlockSize))

\* cipher.NewCBCDecrypter(block, iv).CryptBlocks on whole blocks
RECURSIVE cbcDecrypt(_, _, _)
cbcDecrypt(ks, prev, src) ==
    IF Len(src) = 0 THEN <<>>
    ELSE LET c == Take(src, BlockSize)
         IN  UnmixBlock(DecryptBlock(ks, c), prev) \o cbcDecrypt(ks, c, Drop(src, BlockSize))

\* the counter-mode key stream of GCM
gcmStream(ks, nonce, n) ==
    LET ns == SumSeq(nonce) IN AsSeq([i \in 1..n |-> (ks + ns + (7 * i)) % 256])

\* the authentication tag over the nonce and the ciphertext (no associated
\* data): a change of any one byte of either changes the tag
gcmTag(ks, nonce, ct) ==
    LET plain == SumSeq(nonce) + SumSeq(ct) + Len(ct)
        weighted == WSum(nonce \o ct)
    IN  AsSeq([j \in 1..GcmTagSize |->
            IF j % 2 = 1 THEN ((3 * ks) + plain + (11 * j)) % 256
            ELSE ((5 * ks) + weighted + (11 * j)) % 256])

\* gcm.Seal(nil, nonce, plaintext, nil)
gcmSeal(ks, nonce, plaintext) ==
    LET stream == gcmStream(ks, nonce, Len(plaintext))
        ct == AsSeq([i \in 1..Len(plaintext) |-> (plaintext[i] + stream[i]) % 256])
    IN  ct \o gcmTag(ks, nonce, ct)

\* gcm.Open(nil, nonce, data, nil): [ok, data]
gcmOpen(ks, nonce, data) ==
    IF Len(data) < GcmTagSize THEN [ok |-> FALSE, data |-> <<>>]
    ELSE LET ct == Take(data, Len(data) - GcmTagSize)
             tag == Drop(data, Len(data) - GcmTagSize)
             stream == gcmStream(ks, nonce, Len(ct))
         IN  IF tag # gcmTag(ks, nonce, ct) THEN [ok |-> FALSE, data |-> <<>>]
             ELSE [ok |-> TRUE,
                   data |-> AsSeq([i \in 1..Len(ct) |-> (ct[i] + 256 - stream[i]) % 256])]

-----------------------------------------------------------------------------
(* the helpers of the package *)

\* toBytes and toString keep the bytes of the value
toBytes(s) == s
toString(b) == b

\* a padding that adds nothing to a source of whole blocks
pkcs7Padding_NoFullBlock(src, blockSize) ==
    LET padding == (blockSize - (Len(toBytes(src)) % blockSize)) % blockSize
    IN  toBytes(src) \o Repeat(padding, padding)

pkcs7Padding(src, blockSize) ==
    LET padding == blockSize - (Len(toBytes(src)) % blockSize)
        paddingText == IF padding = 0 THEN Repeat(blockSize, blockSize)
                       ELSE Repeat(padding, padding)
    IN  toBytes(src) \o paddingText

\* append(s, ...) of n bytes to a slice of length len and capacity cap writes
\* them into the array of s when they fit its capacity, and into a new array
\* otherwise
appendInPlace(len, cap, n) == len + n <= cap

\* [panicked, data]: indexing the last byte of an empty slice and slicing
\* to a negative length both panic
pkcs7UnPadding(src) ==
    IF Len(toBytes(src)) = 0 THEN [panicked |-> TRUE, data |-> <<>>]
    ELSE LET unPadding == toBytes(src)[Len(toBytes(src))]
         IN  IF Len(toBytes(src)) - unPadding < 0 THEN [panicked |-> TRUE, data |-> <<>>]
             ELSE [panicked |-> FALSE,
                   data |-> Take(toBytes(src), Len(toBytes(src)) - unPadding)]

\* an envelope whose payload is encoded without padding
Envelope_Unpadded(algorithm, payload) ==
    Itoa(algorithm) \o <<46>> \o RawEncodeToString(payload)

\* the envelope every Sign and Encrypt writes: Itoa(algorithm) "." base64(payload)
Envelope(algorithm, payload) == Itoa(algorithm) \o <<46>> \o EncodeToString(payload)

-----------------------------------------------------------------------------
(* results of a method call *)

\* outcome is "ok" (err = nil), "error" or "panic"; value is the returned
\* text or byte sequence (the zero value, empty, on an error); stage names
\* the last step the method reached
Ok(value, stage) == [outcome |-> "ok", err |-> "nil", value |-> value, stage |-> stage]
Fail(err, stage) == [outcome |-> "error", err |-> err, value |-> <<>>, stage |-> stage]
Panic(stage) == [outcome |-> "panic", err |-> "nil", value |-> <<>>, stage |-> stage]

-----------------------------------------------------------------------------
(* aes.go: aesCbcKeyImpl and aesGcmKeyImpl *)

\* Encrypt from the random iv on, given the padded text
aesCbcKeyImpl_EncryptPadded(k, paddedText, r) ==
    LET iv == randomSize(BlockSize, r)
    IN  IF ~iv.ok THEN Fail(ErrRandom, "random")
        ELSE IF ~aesNewCipher(k.key) THEN Fail(ErrNewCipher, "cipher")
        ELSE Ok(Envelope(k.algorithm,
                         iv.bytes \o cbcEncrypt(KeySchedule(k.key), iv.bytes, paddedText)),
                "done")

aesCbcKeyImpl_Encrypt(k, plaintext, r) ==
    aesCbcKeyImpl_EncryptPadded(k, pkcs7Padding(plaintext, BlockSize), r)

\* a Decrypt that decodes the payload before it looks at the algorithm tag
aesCbcKeyImpl_Decrypt_DecodeFirst(k, ciphertext) ==
    LET parts == SplitN2(toString(ciphertext), 46)
    IN  IF Len(parts) # 2 THEN Fail(ErrInvalidData, "split")
        ELSE LET typ == Atoi(parts[1])
                 dec == DecodeString(parts[2])
        IN  IF ~typ.ok THEN Fail(ErrTypeNotNumber, "atoi")
        ELSE IF ~dec.ok THEN Fail(ErrBase64, "base64")
        ELSE IF Len(dec.data) < BlockSize THEN Panic("slice")
        ELSE IF typ.n # k.algorithm THEN Fail(ErrInvalidAlgorithm, "algorithm")
        ELSE IF Len(Drop(dec.data, BlockSize)) % BlockSize # 0 THEN Panic("cryptblocks")
        ELSE LET un == pkcs7UnPadding(cbcDecrypt(KeySchedule(k.key), Take(dec.data, BlockSize),
                                                 Drop(dec.data, BlockSize)))
        IN  IF un.panicked THEN Panic("unpadding") ELSE Ok(un.data, "done")

\* slicing the decoded payload to [0:16] and [16:] panics when it holds fewer
\* than 16 bytes, whatever the capacity of the decoder's buffer
aesCbcKeyImpl_Decrypt(k, ciphertext) ==
    LET parts == SplitN2(toString(ciphertext), 46)
    IN  IF Len(parts) # 2 THEN Fail(ErrInvalidData, "split")
        ELSE LET typ == Atoi(parts[1])
        IN  IF ~typ.ok THEN Fail(ErrTypeNotNumber, "atoi")
        ELSE IF typ.n # k.algorithm THEN Fail(ErrInvalidAlgorithm, "algorithm")
        ELSE LET dec == DecodeString(parts[2])
        IN  IF ~dec.ok THEN Fail(ErrBase64, "base64")
        ELSE IF Len(dec.data) < BlockSize THEN Panic("slice")
        ELSE LET iv == Take(dec.data, BlockSize)
                 srcCiphertextBytes == Drop(dec.data, BlockSize)
        IN  IF ~aesNewCipher(k.key) THEN Fail(ErrNewCipher, "cipher")
        \* CryptBlocks panics on input that is not a whole number of blocks
        ELSE IF Len(srcCiphertextBytes) % BlockSize # 0 THEN Panic("cryptblocks")
        ELSE LET paddedText == cbcDecrypt(KeySchedule(k.key), iv, srcCiphertextBytes)
                 un == pkcs7UnPadding(paddedText)
        IN  IF un.panicked THEN Panic("unpadding") ELSE Ok(un.data, "done")

aesGcmKeyImpl_Encrypt(k, plaintext, r) ==
    IF ~aesNewCipher(k.key) THEN Fail(ErrNewCipher, "cipher")
    ELSE LET nonce == randomSize(GcmNonceSize, r)
         IN  IF ~nonce.ok THEN Fail(ErrRandom, "random")
             ELSE Ok(Envelope(k.algorithm,
                              nonce.bytes \o gcmSeal(KeySchedule(k.key), nonce.bytes,
                                                     toBytes(plaintext))),
                     "done")

\* a Decrypt that returns what gcm.Open left when Open failed
aesGcmKeyImpl_Decrypt_IgnoreOpenError(k, ciphertext) ==
    LET parts == SplitN2(toString(ciphertext), 46)
    IN  IF Len(parts) # 2 THEN Fail(ErrInvalidData, "split")
        ELSE LET typ == Atoi(parts[1])
        IN  IF ~typ.ok THEN Fail(ErrTypeNotNumber, "atoi")
        ELSE IF typ.n # k.algorithm THEN Fail(ErrInvalidAlgorithm, "algorithm")
        ELSE LET dec == DecodeString(parts[2])
        IN  IF ~dec.ok THEN Fail(ErrBase64, "base64")
        ELSE IF Len(dec.data) < GcmNonceSize THEN Fail(ErrTooShort, "nonce")
        ELSE Ok(gcmOpen(KeySchedule(k.key), Take(dec.data, GcmNonceSize),
                        Drop(dec.data, GcmNonceSize)).data, "done")

aesGcmKeyImpl_Decrypt(k, ciphertext) ==
    LET parts == SplitN2(toString(ciphertext), 46)
    IN  IF Len(parts) # 2 THEN Fail(ErrInvalidData, "split")
        ELSE LET typ == Atoi(parts[1])
        IN  IF ~typ.ok THEN Fail(ErrTypeNotNumber, "atoi")
        ELSE IF typ.n # k.algorithm THEN Fail(ErrInvalidAlgorithm, "algorithm")
        ELSE LET dec == DecodeString(parts[2])
        IN  IF ~dec.ok THEN Fail(ErrBase64, "base64")
        ELSE IF ~aesNewCipher(k.key) THEN Fail(ErrNewCipher, "cipher")
        ELSE IF Len(dec.data) < GcmNonceSize THEN Fail(ErrTooShort, "nonce")
        ELSE LET opened == gcmOpen(KeySchedule(k.key), Take(dec.data, GcmNonceSize),
                                   Drop(dec.data, GcmNonceSize))
        IN  IF ~opened.ok THEN Fail(ErrGcmOpen, "open") ELSE Ok(opened.data, "done")

aesKey_Sign(k, msg) == Fail(ErrUnsupportedMethod, "unsupported")
aesKey_Verify(k, msg, digest) == FALSE
aesKey_PublicKey(k) == [key |-> NoKey, err |-> ErrUnsupportedMethod]

-----------------------------------------------------------------------------
(* hmac_sha.go: hmacShaKeyImpl *)

Sha256Size == 32
Sha512Size == 64
ErrNotSupport == "not support algorithm"

\* hmac.New(h, key) over msg: a digest that determines the hash function,
\* the key and the message, of size bytes (the keys and messages of the
\* model are short enough to fit)
hmacSum(alg, k, msg) ==
    LET size == IF alg = HmacSha256 THEN Sha256Size ELSE Sha512Size
        enc == <<alg % 256, Len(k)>> \o k \o msg \o <<1>>
    IN  IF Len(enc) <= size THEN enc \o Repeat(0, size - Len(enc)) ELSE enc

hmacShaKeyImpl_Sign(k, msg) ==
    IF k.algorithm \notin {HmacSha256, HmacSha512} THEN Fail(ErrNotSupport, "algorithm")
    ELSE Ok(Envelope(k.algorithm, hmacSum(k.algorithm, k.key, toBytes(msg))), "done")

\* a Verify that checks the envelope's tag and not the digest it carries
hmacShaKeyImpl_Verify_TagOnly(k, msg, digest) ==
    LET newDigest == hmacShaKeyImpl_Sign(k, msg)
    IN  IF newDigest.outcome # "ok" THEN FALSE
        ELSE SplitN2(toBytes(newDigest.value), 46)[1] = SplitN2(toBytes(digest), 46)[1]

hmacShaKeyImpl_Verify(k, msg, digest) ==
    LET newDigest == hmacShaKeyImpl_Sign(k, msg)
    IN  IF newDigest.outcome # "ok" THEN FALSE
        ELSE toBytes(newDigest.value) = toBytes(digest)

hmacShaKeyImpl_Encrypt(k, plaintext) == Fail(ErrUnsupportedMethod, "unsupported")
\* a Decrypt that hands its input back
hmacShaKeyImpl_Decrypt_Echo(k, ciphertext) == Ok(ciphertext, "done")

hmacShaKeyImpl_Decrypt(k, ciphertext) == Fail(ErrUnsupportedMethod, "unsupported")
hmacShaKeyImpl_PublicKey(k) == [key |-> NoKey, err |-> ErrUnsupportedMethod]

-----------------------------------------------------------------------------
(* ecdsa.go: ecdsaPrivateKey and ecdsaPublicKey *)

ErrSign == "sign error"

\* the public point of private scalar d
ecdsaPublicPoint(d) == AsSeq([i \in 1..Len(d) |-> ((3 * d[i]) + 1) % 256])

\* ecdsa.PrivateKey.Sign(rand, digest, opts): an ASN.1 signature of digest
\* (r chooses the nonce), or an error when the random source fails
ecdsaSignASN1(d, digest, r) ==
    IF r < 0 THEN [ok |-> FALSE, sig |-> <<>>]
    ELSE [ok |-> TRUE, sig |-> <<48>> \o ecdsaPublicPoint(d) \o <<r>> \o digest]

\* ecdsa.VerifyASN1(pub, hash, sig): sig is a signature of hash by the
\* private key of pub
ecdsaVerifyASN1(point, hash, sig) ==
    /\ Len(sig) = 2 + Len(point) + Len(hash)
    /\ sig[1] = 48
    /\ SubSeq(sig, 2, 1 + Len(point)) = point
    /\ Drop(sig, 2 + Len(point)) = hash

\* &ecdsaPublicKey[T]{publicKey: &e.privateKey.PublicKey}: the algorithm
\* field is left at its zero value
ecdsaPrivateKey_PublicKey(k) ==
    [key |-> [kind |-> "ecdsaPublic", key |-> ecdsaPublicPoint(k.key), algorithm |-> 0],
     err |-> "nil"]

\* the message itself is handed to the signer as the digest
ecdsaPrivateKey_Sign(k, msg, r) ==
    LET payload == ecdsaSignASN1(k.key, toBytes(msg), r)
    IN  IF ~payload.ok THEN Fail(ErrSign, "sign")
        ELSE Ok(Envelope(k.algorithm, payload.sig), "done")

ecdsaPrivateKey_Verify(k, msg, digest) == FALSE
ecdsaPrivateKey_Encrypt(k, plaintext) == Fail(ErrUnsupportedMethod, "unsupported")
ecdsaPrivateKey_Decrypt(k, ciphertext) == Fail(ErrUnsupportedMethod, "unsupported")

ecdsaPublicKey_PublicKey(k) == [key |-> k, err |-> "nil"]
ecdsaPublicKey_Sign(k, msg) == Fail(ErrUnsupportedMethod, "unsupported")

\* the envelope is looked for in msg, and digest goes to VerifyASN1 as it is
ecdsaPublicKey_Verify(k, msg, digest) ==
    LET parts == SplitN2(toString(msg), 46)
    IN  IF Len(parts) # 2 THEN FALSE
        ELSE LET typ == Atoi(parts[1])
        IN  IF ~typ.ok THEN FALSE
        ELSE IF typ.n # k.algorithm THEN FALSE
        ELSE ecdsaVerifyASN1(k.key, toBytes(msg), toBytes(digest))

ecdsaPublicKey_Encrypt(k, plaintext) == Fail(ErrUnsupportedMethod, "unsupported")
ecdsaPublicKey_Decrypt(k, ciphertext) == Fail(ErrUnsupportedMethod, "unsupported")

-----------------------------------------------------------------------------
(* argon2/argon2.go: KeyImpl, its options and its generator *)

MethodArgon2i == <<97, 114, 103, 111, 110, 50, 105>>
MethodArgon2id == <<97, 114, 103, 111, 110, 50, 105, 100>>
MethodScrypt == <<115, 99, 114, 121, 112, 116>>

\* argon2.Version
Argon2Version == 19

ErrArgonInvalidMethod == "argon2: invalid method"
ErrArgonSalt == "pbkdf2: failed to generate random salt"
ErrArgonStructure == "argon2: invalid signature data structure"
ErrArgonAlgorithm == "argon2: invalid algorithm type"
ErrArgonPayload == "argon2: invalid signature payload data structure"
ErrArgonParseVersion == "argon2: failed to parse version"
ErrArgonVersion == "argon2: invalid version"
ErrArgonParseParams == "argon2: failed to parse params"
ErrArgonDecodeSalt == "argon2: failed to decode salt"
ErrArgonDecodeDigest == "argon2: failed to decode digest"

\* an option applied to a KeyImpl: the key afterwards and the error
WithMethod(k, method) ==
    IF method # MethodArgon2i /\ method # MethodArgon2id
    THEN [key |-> k, err |-> ErrArgonInvalidMethod]
    ELSE [key |-> [k EXCEPT !.method = method], err |-> "nil"]

WithSaltSize(k, size) ==
    IF size <= 0 THEN [key |-> k, err |-> "nil"]
    ELSE [key |-> [k EXCEPT !.saltSize = size], err |-> "nil"]

WithTime(k, time) ==
    IF time = 0 THEN [key |-> k, err |-> "nil"]
    ELSE [key |-> [k EXCEPT !.time = time], err |-> "nil"]

WithMemory(k, memory) ==
    IF memory = 0 THEN [key |-> k, err |-> "nil"]
    ELSE [key |-> [k EXCEPT !.memory = memory], err |-> "nil"]

WithThreads(k, threads) ==
    IF threads = 0 THEN [key |-> k, err |-> "nil"]
    ELSE [key |-> [k EXCEPT !.threads = threads], err |-> "nil"]

WithLength(k, length) ==
    IF length <= 0 THEN [key |-> k, err |-> "nil"]
    ELSE [key |-> [k EXCEPT !.length = length], err |-> "nil"]

\* opt(ki) for an option given as its name and its argument
ApplyOption(k, opt) ==
    CASE opt.name = "WithMethod" -> WithMethod(k, opt.value)
      [] opt.name = "WithSaltSize" -> WithSaltSize(k, opt.value)
      [] opt.name = "WithTime" -> WithTime(k, opt.value)
      [] opt.name = "WithMemory" -> WithMemory(k, opt.value)
      [] opt.name = "WithThreads" -> WithThreads(k, opt.value)
      [] opt.name = "WithLength" -> WithLength(k, opt.value)

RECURSIVE ApplyOptions(_, _)
ApplyOptions(k, opts) ==
    IF opts = <<>> THEN [key |-> k, err |-> "nil"]
    ELSE LET r == ApplyOption(k, Head(opts))
         IN  IF r.err # "nil" THEN [key |-> NoKey, err |-> r.err]
             ELSE ApplyOptions(r.key, Tail(opts))

KeyGen(alg, opts) ==
    ApplyOptions([kind |-> "argon2", algorithm |-> alg, method |-> MethodArgon2id,
                  saltSize |-> 16, time |-> 1, memory |-> 64 * 1024, threads |-> 4,
                  length |-> 32], opts)

\* argon2.Key (variant 1) and argon2.IDKey (variant 2): keyLen bytes that
\* depend on every argument, the length asked for among them; both panic
\* on less than one pass or thread
argon2DeriveKey(variant, password, salt, time, memory, threads, keyLen) ==
    LET seed == (variant + WSum(password) + (3 * WSum(salt)) + (5 * time)
                 + (7 * (memory % 4093)) + (11 * threads) + (13 * keyLen)) % 256
    IN  IF time < 1 \/ threads < 1 THEN [panicked |-> TRUE, key |-> <<>>]
        ELSE [panicked |-> FALSE,
              key |-> AsSeq([i \in 1..keyLen |-> (seed + (i * 37)) % 256])]

argon2ByMethod(method, password, salt, time, memory, threads, keyLen) ==
    IF method = MethodArgon2i
    THEN argon2DeriveKey(1, password, salt, time, memory, threads, keyLen)
    ELSE argon2DeriveKey(2, password, salt, time, memory, threads, keyLen)

\* the decimal number that text starts with, as a %d of fmt.Sscanf reads it
\* into an unsigned integer: the number and the text after it
RECURSIVE DigitPrefixLen(_, _)
DigitPrefixLen(text, i) ==
    IF i <= Len(text) /\ IsDigit(text[i]) THEN DigitPrefixLen(text, i + 1) ELSE i - 1

ScanNumber(text) ==
    LET n == DigitPrefixLen(text, 1)
    IN  IF n = 0 \/ n > 9 THEN [ok |-> FALSE, n |-> 0, rest |-> text]
        ELSE [ok |-> TRUE, n |-> DigitsValue(Take(text, n)), rest |-> Drop(text, n)]

\* the text after the literal lit when text starts with it
ScanLiteral(text, lit) ==
    IF Len(text) >= Len(lit) /\ Take(text, Len(lit)) = lit
    THEN [ok |-> TRUE, rest |-> Drop(text, Len(lit))]
    ELSE [ok |-> FALSE, rest |-> text]

\* fmt.Sscanf(version, "v=%d", &v)
ScanVersion(version) ==
    LET l == ScanLiteral(version, <<118, 61>>)
    IN  IF ~l.ok THEN [ok |-> FALSE, v |-> 0]
        ELSE LET d == ScanNumber(l.rest) IN [ok |-> d.ok, v |-> d.n]

\* fmt.Sscanf(params, "m=%d,t=%d,p=%d", &memory, &time, &threads), threads
\* being a uint8
ScanParams(params) ==
    LET bad == [ok |-> FALSE, memory |-> 0, time |-> 0, threads |-> 0]
        l1 == ScanLiteral(params, <<109, 61>>)
        m == ScanNumber(l1.rest)
        l2 == ScanLiteral(m.rest, <<44, 116, 61>>)
        t == ScanNumber(l2.rest)
        l3 == ScanLiteral(t.rest, <<44, 112, 61>>)
        p == ScanNumber(l3.rest)
    IN  IF ~l1.ok \/ ~m.ok THEN bad
        ELSE IF ~l2.ok \/ ~t.ok THEN bad
        ELSE IF ~l3.ok \/ ~p.ok \/ p.n > 255 THEN bad
        ELSE [ok |-> TRUE, memory |-> m.n, time |-> t.n, threads |-> p.n]

\* fmt.Sprintf("%s$v=%d$m=%d,t=%d,p=%d$%s$%s", ...)
argonPayload(method, memory, time, threads, salt, digest) ==
    method \o <<36, 118, 61>> \o Itoa(Argon2Version)
           \o <<36, 109, 61>> \o Itoa(memory)
           \o <<44, 116, 61>> \o Itoa(time)
           \o <<44, 112, 61>> \o Itoa(threads)
           \o <<36>> \o RawEncodeToString(salt)
           \o <<36>> \o RawEncodeToString(digest)

KeyImpl_Sign(k, msg, r) ==
    LET salt == randomSize(k.saltSize, r)
    IN  IF ~salt.ok THEN Fail(ErrArgonSalt, "random")
        ELSE LET digest == argon2ByMethod(k.method, toBytes(msg), salt.bytes,
                                          k.time, k.memory, k.threads, k.length)
        IN  IF digest.panicked THEN Panic("argon2")
        ELSE Ok(k.algorithm \o <<46>>
                  \o argonPayload(k.method, k.memory, k.time, k.threads, salt.bytes, digest.key),
                "done")

\* (bool, error) of Verify; the digest is computed again with the length of
\* the key, every other parameter being read from the signature
KeyImpl_VerifyResult(outcome, valid, err) == [outcome |-> outcome, valid |-> valid, err |-> err]

KeyImpl_Verify(k, msg, signature) ==
    LET parts == SplitN(toString(signature), 46, 2)
    IN  IF Len(parts) # 2 THEN KeyImpl_VerifyResult("error", FALSE, ErrArgonStructure)
        ELSE IF parts[1] # k.algorithm THEN KeyImpl_VerifyResult("error", FALSE, ErrArgonAlgorithm)
        ELSE LET fields == SplitN(parts[2], 36, 5)
        IN  IF Len(fields) # 5 THEN KeyImpl_VerifyResult("error", FALSE, ErrArgonPayload)
        ELSE LET v == ScanVersion(fields[2])
        IN  IF ~v.ok THEN KeyImpl_VerifyResult("error", FALSE, ErrArgonParseVersion)
        ELSE IF v.v # Argon2Version THEN KeyImpl_VerifyResult("error", FALSE, ErrArgonVersion)
        ELSE LET params == ScanParams(fields[3])
        IN  IF ~params.ok THEN KeyImpl_VerifyResult("error", FALSE, ErrArgonParseParams)
        ELSE LET saltBytes == RawDecodeString(fields[4])
        IN  IF ~saltBytes.ok THEN KeyImpl_VerifyResult("error", FALSE, ErrArgonDecodeSalt)
        ELSE LET providedDigest == RawDecodeString(fields[5])
        IN  IF ~providedDigest.ok THEN KeyImpl_VerifyResult("error", FALSE, ErrArgonDecodeDigest)
        ELSE LET computedDigest == argon2ByMethod(fields[1], toBytes(msg), saltBytes.data,
                                                  params.time, params.memory, params.threads,
                                                  k.length)
        IN  IF computedDigest.panicked THEN KeyImpl_VerifyResult("panic", FALSE, "nil")
        ELSE KeyImpl_VerifyResult("ok", providedDigest.data = computedDigest.key, "nil")

-----------------------------------------------------------------------------
(* SKI and Bytes of the AES and HMAC keys *)

HexDigit(v) == IF v < 10 THEN 48 + v ELSE 87 + v

\* hex.EncodeToString
toHexString(b) ==
    AsSeq([i \in 1..(2 * Len(b)) |->
              IF i % 2 = 1 THEN HexDigit(b[(i + 1) \div 2] \div 16)
              ELSE HexDigit(b[i \div 2] % 16)])

\* sha256 of data: 32 bytes that depend on every byte of data
sha256Sum(data) ==
    AsSeq([i \in 1..Sha256Size |-> (WSum(data) + Len(data) + (i * 7)) % 256])

Key_SKI(k) == toHexString(sha256Sum(k.key))
Key_Bytes(k) == toHexString(k.key)

-----------------------------------------------------------------------------
(* the Key[T] interface: a call on a key runs the method of its type *)

Key_Encrypt(k, plaintext, r) ==
    CASE k.kind = "aesCbc" -> aesCbcKeyImpl_Encrypt(k, plaintext, r)
      [] k.kind = "aesGcm" -> aesGcmKeyImpl_Encrypt(k, plaintext, r)
      [] k.kind = "hmac" -> hmacShaKeyImpl_Encrypt(k, plaintext)
      [] k.kind = "ecdsaPrivate" -> ecdsaPrivateKey_Encrypt(k, plaintext)
      [] k.kind = "ecdsaPublic" -> ecdsaPublicKey_Encrypt(k, plaintext)

Key_Decrypt(k, ciphertext) ==
    CASE k.kind = "aesCbc" -> aesCbcKeyImpl_Decrypt(k, ciphertext)
      [] k.kind = "aesGcm" -> aesGcmKeyImpl_Decrypt(k, ciphertext)
      [] k.kind = "hmac" -> hmacShaKeyImpl_Decrypt(k, ciphertext)
      [] k.kind = "ecdsaPrivate" -> ecdsaPrivateKey_Decrypt(k, ciphertext)
      [] k.kind = "ecdsaPublic" -> ecdsaPublicKey_Decrypt(k, ciphertext)

Key_Sign(k, msg, r) ==
    CASE k.kind \in {"aesCbc", "aesGcm"} -> aesKey_Sign(k, msg)
      [] k.kind = "hmac" -> hmacShaKeyImpl_Sign(k, msg)
      [] k.kind = "ecdsaPrivate" -> ecdsaPrivateKey_Sign(k, msg, r)
      [] k.kind = "ecdsaPublic" -> ecdsaPublicKey_Sign(k, msg)

Key_Verify(k, msg, digest) ==
    CASE k.kind \in {"aesCbc", "aesGcm"} -> aesKey_Verify(k, msg, digest)
      [] k.kind = "hmac" -> hmacShaKeyImpl_Verify(k, msg, digest)
      [] k.kind = "ecdsaPrivate" -> ecdsaPrivateKey_Verify(k, msg, digest)
      [] k.kind = "ecdsaPublic" -> ecdsaPublicKey_Verify(k, msg, digest)

Key_PublicKey(k) ==
    CASE k.kind \in {"aesCbc", "aesGcm"} -> aesKey_PublicKey(k)
      [] k.kind = "hmac" -> hmacShaKeyImpl_PublicKey(k)
      [] k.kind = "ecdsaPrivate" -> ecdsaPrivateKey_PublicKey(k)
      [] k.kind = "ecdsaPublic" -> ecdsaPublicKey_PublicKey(k)

-----------------------------------------------------------------------------
(* inputs *)

Text123456 == <<49, 50, 51, 52, 53, 54>>
TextHelloWorld == <<104, 101, 108, 108, 111, 32, 119, 111, 114, 108, 100>>
TextGoodbye == <<103, 111, 111, 100, 98, 121, 101>>
TextIncorrect == <<105, 110, 99, 111, 114, 114, 101, 99, 116, 95, 101, 110, 99,
                   114, 121, 112, 116, 101, 100, 68, 97, 116, 97>>

\* key material of n bytes
Material(n) == AsSeq([j \in 1..n |-> (200 + (j * 13)) % 256])

\* a plaintext of n bytes that starts with '.' and ends with the byte 1
PlainOf(n) == AsSeq([j \in 1..n |-> IF j = n THEN 1 ELSE (45 + j) % 256])

\* the empty plaintext, one byte less than a block, one block, several blocks
Plaintexts == {PlainOf(n) : n \in {0, BlockSize - 1, BlockSize, BlockSize * MaxBlocks}}
                \cup {TextHelloWorld}

\* what the random source may do: fail (-1) or yield one of NumRand values
RandChoices == (0 - 1)..(NumRand - 1)

NoEnv == [made |-> FALSE, text |-> <<>>, pt |-> <<>>, by |-> NoKey]
NoRes == [op |-> "none", outcome |-> "none", err |-> "nil"]

\* the record of a call that returned r
Res(op, r, input) ==
    [op |-> op, outcome |-> r.outcome, err |-> r.err, value |-> r.value,
     stage |-> r.stage, input |-> input]

ImportRes(op, r, raw, alg) ==
    [op |-> op, outcome |-> IF r.panicked THEN "panic"
                            ELSE IF r.err = "nil" THEN "ok" ELSE "error",
     err |-> r.err, got |-> r.key, raw |-> raw, alg |-> alg]

-----------------------------------------------------------------------------
(* SpecAes: a caller that imports AES keys, encrypts and decrypts *)

AesRaws == {String(Text123456), Bytes(Material(16)), Bytes(<<>>)}

\* texts that are no envelope of key k, and envelopes tagged for k with
\* payloads of every awkward length
PayloadOf(n) == AsSeq([j \in 1..n |-> (j * 29) % 256])

DecryptInputs(k) ==
    {TextIncorrect,
     <<46>> \o EncodeToString(PayloadOf(32)),
     <<97, 98, 99, 46>> \o EncodeToString(PayloadOf(32)),
     Itoa(k.algorithm) \o <<46, 33, 33, 33, 33>>,
     Itoa(k.algorithm) \o <<46, 65, 65, 65>>}
    \cup {Envelope(k.algorithm, PayloadOf(n)) :
            n \in {0, 5, GcmNonceSize, BlockSize, 20, GcmNonceSize + GcmTagSize,
                   2 * BlockSize}}

InitAes ==
    /\ key = NoKey
    /\ pub = NoKey
    /\ env = NoEnv
    /\ res = NoRes
    /\ NoCallerMemory

\* key, err = KeyImport[T](raw, alg): the assignment sets key to the nil
\* interface when the import fails
Import(raw, alg) ==
    LET r == KeyImport(raw, alg)
    IN  /\ key' = r.key
        /\ res' = ImportRes("KeyImport", r, raw, alg)
        /\ UNCHANGED <<pub, env, mem>>

\* ciphertext, err = key.Encrypt(plaintext)
Encrypt(plaintext, r) ==
    /\ key # NoKey
    /\ LET c == Key_Encrypt(key, plaintext, r)
       IN  /\ env' = IF c.outcome = "ok"
                     THEN [made |-> TRUE, text |-> c.value, pt |-> plaintext, by |-> key]
                     ELSE env
           /\ res' = Res("Encrypt", c, plaintext)
    /\ UNCHANGED <<key, pub, mem>>

\* plaintext, err = key.Decrypt(ciphertext), on the envelope held
DecryptEnv ==
    /\ key # NoKey
    /\ env.made
    /\ LET d == Key_Decrypt(key, env.text)
       IN  res' = Res("Decrypt", d, env.text)
    /\ UNCHANGED <<key, pub, env, mem>>

\* key.Decrypt on a text that is no envelope of this key
DecryptInput(text) ==
    /\ key # NoKey
    /\ LET d == Key_Decrypt(key, text)
       IN  res' = Res("DecryptInput", d, text)
    /\ UNCHANGED <<key, pub, env, mem>>

\* the payload of an envelope, as the caller can decode it
PayloadOfEnvelope(text) == DecodeString(SplitN2(text, 46)[2]).data

\* the bytes of a payload of n bytes an attacker may change: the first, the
\* last of the nonce, the first and the last of the ciphertext, the first
\* and the last of the tag
TamperPositions(n) ==
    {1, GcmNonceSize, GcmNonceSize + 1, n - GcmTagSize, n - GcmTagSize + 1, n} \cap (1..n)

TamperDeltas == {1, 128}

\* the envelope tagged alg whose payload is payload with delta added to byte pos
Tampered(alg, payload, pos, delta) ==
    Envelope(alg, [payload EXCEPT ![pos] = (@ + delta) % 256])

\* key.Decrypt on the envelope held with one byte of its payload changed
DecryptTampered ==
    /\ key # NoKey
    /\ env.made
    /\ LET payload == PayloadOfEnvelope(env.text)
       IN  \E pos \in TamperPositions(Len(payload)), delta \in TamperDeltas :
             LET text == Tampered(env.by.algorithm, payload, pos, delta)
                 d == Key_Decrypt(key, text)
             IN  res' = Res("DecryptTampered", d, text)
    /\ UNCHANGED <<key, pub, env, mem>>

\* digest, err = key.Sign(msg)
Sign(msg, r) ==
    /\ key # NoKey
    /\ LET d == Key_Sign(key, msg, r)
       IN  /\ env' = IF d.outcome = "ok"
                     THEN [made |-> TRUE, text |-> d.value, pt |-> msg, by |-> key]
                     ELSE env
           /\ res' = Res("Sign", d, msg)
    /\ UNCHANGED <<key, pub, mem>>

\* ok = key.Verify(msg, digest)
Verify(msg, digest) ==
    /\ key # NoKey
    /\ res' = [op |-> "Verify", outcome |-> "ok", err |-> "nil",
               valid |-> Key_Verify(key, msg, digest), input |-> msg, digest |-> digest]
    /\ UNCHANGED <<key, pub, env, mem>>

\* pk, err = key.PublicKey()
PublicKey ==
    /\ key # NoKey
    /\ LET r == Key_PublicKey(key)
       IN  /\ pub' = r.key
           /\ res' = [op |-> "PublicKey", outcome |-> IF r.err = "nil" THEN "ok" ELSE "error",
                      err |-> r.err, got |-> r.key]
    /\ UNCHANGED <<key, env, mem>>

\* one scenario of the caller: import a key (again, for another one), try
\* texts that are no envelope of it, encrypt one plaintext, then decrypt the
\* envelope, whole or with a byte changed
NextAes ==
    \/ \E raw \in AesRaws, alg \in AesAlgorithms : ~env.made /\ Import(raw, alg)
    \/ \E plaintext \in Plaintexts, r \in RandChoices : ~env.made /\ Encrypt(plaintext, r)
    \/ DecryptEnv
    \/ \E text \in DecryptInputs(key) : ~env.made /\ DecryptInput(text)
    \/ DecryptTampered

SpecAes == InitAes /\ [][NextAes]_vars

\* C1: round trip.  Whenever an AES-CBC or AES-GCM key decrypts the envelope
\* that Encrypt made with that key from plaintext P (empty, one byte short
\* of a block, one block, several blocks), whatever IV or nonce the random
\* source yielded, Decrypt returns P and no error.
RoundTrip ==
    (res.op = "Decrypt" /\ env.made /\ key = env.by)
        => (res.outcome = "ok" /\ res.err = "nil" /\ res.value = env.pt)

\* a CBC key has decrypted the envelope of a plaintext of several whole blocks
RoundTripWitness ==
    /\ res.op = "Decrypt"
    /\ env.made
    /\ key = env.by
    /\ key.kind = "aesCbc"
    /\ Len(env.pt) = BlockSize * MaxBlocks
    /\ res.value = env.pt

\* C7: no operation aborts.  Decrypt on an AES key returns a plaintext or an
\* error for every input and never panics.
DecryptNeverPanics ==
    res.op \in {"Decrypt", "DecryptInput", "DecryptTampered"} => res.outcome # "panic"

\* the envelopes of the model that carry the tag of key k and a payload
\* shorter than the GCM nonce
ShortEnvelopes(k) == {Envelope(k.algorithm, PayloadOf(n)) : n \in {0, 5}}

\* C8: tamper evidence.  On an AES-GCM key, the envelope of Encrypt with any
\* one byte of its payload changed (nonce, ciphertext or tag) and the tag
\* kept is rejected with the error of gcm.Open and no plaintext, and an
\* envelope whose payload is shorter than the nonce is rejected as too short.
GcmTamperEvident ==
    /\ (res.op = "DecryptTampered" /\ key.kind = "aesGcm" /\ key = env.by)
          => (res.outcome = "error" /\ res.err = ErrGcmOpen /\ res.value = <<>>)
    /\ (res.op = "DecryptInput" /\ key.kind = "aesGcm" /\ res.input \in ShortEnvelopes(key))
          => (res.outcome = "error" /\ res.err = ErrTooShort /\ res.value = <<>>)

\* a GCM key has rejected its envelope of a non-empty plaintext with one
\* ciphertext byte changed
GcmTamperWitness ==
    /\ res.op = "DecryptTampered"
    /\ key.kind = "aesGcm"
    /\ key = env.by
    /\ Len(env.pt) > 0
    /\ res.input # env.text
    /\ LET was == PayloadOfEnvelope(env.text)
           now == PayloadOfEnvelope(res.input)
       IN  was[GcmNonceSize + 1] # now[GcmNonceSize + 1]
    /\ res.outcome = "error"

-----------------------------------------------------------------------------
(* SpecAesPeer: an envelope made under one key reaches the holder of another *)

\* envelopes tagged for an AES algorithm whose payload is no base64 or is empty
PeerInputs == UNION {{Itoa(alg) \o <<46, 33, 33, 33, 33>>, Envelope(alg, <<>>)} :
                        alg \in AesAlgorithms}

NextAesPeer ==
    \/ \E raw \in AesRaws, alg \in AesAlgorithms : Import(raw, alg)
    \/ \E plaintext \in Plaintexts, r \in RandChoices : ~env.made /\ Encrypt(plaintext, r)
    \/ DecryptEnv
    \/ \E text \in PeerInputs : ~env.made /\ DecryptInput(text)

SpecAesPeer == InitAes /\ [][NextAesPeer]_vars

\* the algorithm an envelope text is tagged with, 0 when it carries no number
TagOf(text) ==
    LET parts == SplitN2(text, 46)
    IN  IF Len(parts) = 2 /\ Atoi(parts[1]).ok THEN Atoi(parts[1]).n ELSE 0

\* C2: algorithm confusion is rejected.  Decrypt on a key created for
\* algorithm B, given an envelope tagged for another AES algorithm A (made by
\* Encrypt on a key for A, from the same raw material or not), returns the
\* invalid-algorithm error and no plaintext, and stops at the tag check:
\* the payload is not base64-decoded, so a payload that is no base64, or is
\* too short to slice, changes nothing.
ConfusionRejected ==
    (/\ res.op \in {"Decrypt", "DecryptInput"}
     /\ TagOf(res.input) \in AesAlgorithms
     /\ TagOf(res.input) # key.algorithm)
        => (/\ res.outcome = "error"
            /\ res.err = ErrInvalidAlgorithm
            /\ res.value = <<>>
            /\ res.stage = "algorithm")

\* a key imported from the same raw material for another algorithm has
\* refused the envelope
ConfusionWitness ==
    /\ res.op = "Decrypt"
    /\ env.made
    /\ env.by.algorithm = AesCbc128
    /\ key.algorithm = AesCbc192
    /\ key.key # env.by.key
    /\ res.err = ErrInvalidAlgorithm


-----------------------------------------------------------------------------
(* SpecImport: calls of KeyImport and of the two importers *)

\* length of the longest key material
MaxRawLen == 33

ImportRaws ==
    {Bytes(<<>>), String(<<>>), OtherType, String(Text123456), Bytes(<<7>>)}
        \cup {Bytes(Material(n)) : n \in {16, 24, 32, MaxRawLen}}

\* every registered algorithm, the zero value and a value no one registered
ImportAlgorithms == RegisteredAlgorithms \cup {0, 999}

\* key, err = new(aesKeyImportImpl[T]).KeyImport(raw, alg)
AesImporterImport(raw, alg) ==
    LET r == aesKeyImportImpl_KeyImport(raw, alg)
    IN  /\ key' = r.key
        /\ res' = ImportRes("aesKeyImportImpl.KeyImport", r, raw, alg)
        /\ UNCHANGED <<pub, env, mem>>

\* key, err = new(hmacShaKeyImportImpl[T]).KeyImport(raw, alg)
HmacImporterImport(raw, alg) ==
    LET r == hmacShaKeyImportImpl_KeyImport(raw, alg)
    IN  /\ key' = r.key
        /\ res' = ImportRes("hmacShaKeyImportImpl.KeyImport", r, raw, alg)
        /\ UNCHANGED <<pub, env, mem>>

NextImport ==
    \/ \E raw \in ImportRaws, alg \in ImportAlgorithms : Import(raw, alg)
    \/ \E raw \in ImportRaws, alg \in ImportAlgorithms : AesImporterImport(raw, alg)
    \/ \E raw \in ImportRaws, alg \in ImportAlgorithms : HmacImporterImport(raw, alg)

SpecImport == InitAes /\ [][NextImport]_vars

ImportOps == {"KeyImport", "aesKeyImportImpl.KeyImport", "hmacShaKeyImportImpl.KeyImport"}

EmptyRaw(raw) == raw.type \in {"bytes", "string"} /\ raw.data = <<>>

\* C3 as stated: KeyImport of empty material returns ErrEmptyKey and no key
\* for every registered algorithm.
EmptyKeyForEveryAlgorithm ==
    (res.op = "KeyImport" /\ EmptyRaw(res.raw) /\ res.alg \in RegisteredAlgorithms)
        => (res.outcome = "error" /\ res.err = ErrEmptyKey /\ res.got = NoKey)

\* C3 as amended: import of empty material (an empty byte sequence or the
\* empty text) never yields a key.  KeyImport returns ErrEmptyKey for every
\* algorithm that has an importer (the HMAC, AES-CBC and AES-GCM variants),
\* and each importer called directly returns ErrEmptyKey whatever the
\* algorithm; for the ECDSA and RSA variants KeyImport returns the
\* not-found-importer error, the material not being looked at.
EmptyKeyRejected ==
    (res.op \in ImportOps /\ EmptyRaw(res.raw) /\ res.alg \in RegisteredAlgorithms)
        => /\ res.outcome = "error"
           /\ res.got = NoKey
           /\ key = NoKey
           /\ res.err = IF res.op = "KeyImport"
                           /\ res.alg \in EcdsaAlgorithms \cup RsaAlgorithms
                        THEN ErrNotFoundImporter
                        ELSE ErrEmptyKey

\* KeyImport has refused the empty text for AES-GCM-256
EmptyKeyWitness ==
    /\ res.op = "KeyImport"
    /\ res.raw = String(<<>>)
    /\ res.alg = AesGcm256
    /\ res.err = ErrEmptyKey

\* the key length each AES algorithm requires
RequiredKeyLen(alg) ==
    IF alg \in {AesCbc128, AesGcm128} THEN 16
    ELSE IF alg \in {AesCbc192, AesGcm192} THEN 24
    ELSE 32

\* C9: key import stretching.  An AES key imported from non-empty material
\* holds exactly the 16, 24 or 32 bytes its algorithm requires: the material
\* itself when it has that length, otherwise the PBKDF2 output of that
\* length computed with the material as password and as salt (1000
\* iterations), which depends on nothing but the material and the algorithm.
StretchedToKeyLen ==
    (res.op \in {"KeyImport", "aesKeyImportImpl.KeyImport"}
     /\ res.outcome = "ok" /\ res.alg \in AesAlgorithms)
        => /\ key = res.got
           /\ key.algorithm = res.alg
           /\ Len(key.key) = RequiredKeyLen(res.alg)
           /\ key.key = IF Len(res.raw.data) = RequiredKeyLen(res.alg)
                        THEN res.raw.data
                        ELSE pbkdf2Key(res.raw.data, res.raw.data, 1000,
                                       RequiredKeyLen(res.alg))

\* material of 24 bytes has been stretched to the 16 bytes of AES-CBC-128
StretchedWitness ==
    /\ res.op = "KeyImport"
    /\ res.outcome = "ok"
    /\ res.alg = AesCbc128
    /\ Len(res.raw.data) = 24
    /\ Len(key.key) = 16
    /\ key.key # Take(res.raw.data, 16)

-----------------------------------------------------------------------------
(* SpecHmac: HMAC keys sign, and the same or another key verifies *)

HmacRaws == {String(Text123456), Bytes(Material(8))}

Messages == {<<>>, TextHelloWorld, TextGoodbye}

\* the digest of Sign stays with the caller when another key is imported
NextHmac ==
    \/ \E raw \in HmacRaws, alg \in HmacAlgorithms : Import(raw, alg)
    \/ \E msg \in Messages : Sign(msg, 0)
    \/ \E msg \in Messages : env.made /\ Verify(msg, env.text)

SpecHmac == InitAes /\ [][NextHmac]_vars

\* C4: HMAC sign and verify.  For the digest d = k.Sign(m) of an HMAC key k,
\* k2.Verify(m2, d) is true when k2 has the material and the algorithm of k
\* and m2 = m, and false when the message, the material or the algorithm
\* differs (the keyed hash determining algorithm, key and message).
HmacVerifyIffSame ==
    (res.op = "Verify" /\ env.made /\ res.digest = env.text /\ key.kind = "hmac")
        => (res.valid <=> (/\ key.key = env.by.key
                           /\ key.algorithm = env.by.algorithm
                           /\ res.input = env.pt))

\* the key that signed "hello world" has verified it
HmacVerifyWitness ==
    /\ res.op = "Verify"
    /\ env.made
    /\ key = env.by
    /\ key.algorithm = HmacSha256
    /\ res.input = TextHelloWorld
    /\ env.pt = TextHelloWorld
    /\ res.digest = env.text
    /\ res.valid

-----------------------------------------------------------------------------
(* SpecEcdsa: an ECDSA private key signs, its public key verifies *)

\* the package has no constructor of ECDSA keys: a private key is a scalar
\* on the curve of its algorithm
EcdsaKeys == {[kind |-> "ecdsaPrivate", key |-> d, algorithm |-> alg] :
                 d \in {<<7, 1>>, <<9, 2>>}, alg \in EcdsaAlgorithms}

\* messages, among them texts of the shape of an envelope
EcdsaMessages == {TextHelloWorld, <<48, 46, 97>>, Itoa(EcdsaP256) \o <<46, 97>>}

InitEcdsa ==
    /\ key \in EcdsaKeys
    /\ pub = NoKey
    /\ env = NoEnv
    /\ res = NoRes
    /\ NoCallerMemory

\* ok = pub.Verify(msg, digest), on the digest held
PublicVerify(msg) ==
    /\ pub # NoKey
    /\ env.made
    /\ res' = [op |-> "PublicVerify", outcome |-> "ok", err |-> "nil",
               valid |-> Key_Verify(pub, msg, env.text), input |-> msg, digest |-> env.text]
    /\ UNCHANGED <<key, pub, env, mem>>

NextEcdsa ==
    \/ PublicKey
    \/ \E msg \in EcdsaMessages, r \in RandChoices : Sign(msg, r)
    \/ \E msg \in EcdsaMessages : PublicVerify(msg)

SpecEcdsa == InitEcdsa /\ [][NextEcdsa]_vars

\* C6: ECDSA sign and verify.  The public key of a private key k carries
\* the algorithm of k, and verifies k.Sign(m) against m for every message m.
EcdsaSignVerify ==
    /\ pub # NoKey => pub.algorithm = key.algorithm
    /\ (res.op = "PublicVerify" /\ env.by = key /\ res.input = env.pt
        /\ res.digest = env.text /\ pub.key = ecdsaPublicPoint(key.key))
          => res.valid

-----------------------------------------------------------------------------
(* SpecUnsupported: every method called on a key of every type *)

InitUnsupported ==
    /\ key \in EcdsaKeys \cup {NoKey}
    /\ pub = NoKey
    /\ env = NoEnv
    /\ res = NoRes
    /\ NoCallerMemory

\* calls on the public key held
PublicEncrypt(plaintext) ==
    /\ pub # NoKey
    /\ LET c == Key_Encrypt(pub, plaintext, 0)
       IN  res' = Res("PublicEncrypt", c, plaintext)
    /\ UNCHANGED <<key, pub, env, mem>>

PublicDecrypt(text) ==
    /\ pub # NoKey
    /\ LET d == Key_Decrypt(pub, text)
       IN  res' = Res("PublicDecrypt", d, text)
    /\ UNCHANGED <<key, pub, env, mem>>

PublicSign(msg) ==
    /\ pub # NoKey
    /\ LET d == Key_Sign(pub, msg, 0)
       IN  res' = Res("PublicSign", d, msg)
    /\ UNCHANGED <<key, pub, env, mem>>

\* what the caller may hand to Decrypt and Verify: a text of its own, or the
\* envelope it holds
HeldTexts == {TextIncorrect} \cup (IF env.made THEN {env.text} ELSE {})

NextUnsupported ==
    \/ \E alg \in HmacAlgorithms \cup AesAlgorithms :
          ~env.made /\ Import(String(Text123456), alg)
    \/ PublicKey
    \/ \E msg \in {TextHelloWorld, TextGoodbye} : ~env.made /\ Sign(msg, 0)
    \/ \E plaintext \in {<<>>, TextHelloWorld} : ~env.made /\ Encrypt(plaintext, 0)
    \/ \E text \in HeldTexts : DecryptInput(text)
    \/ \E msg \in {TextHelloWorld, TextGoodbye}, digest \in HeldTexts : Verify(msg, digest)
    \/ \E plaintext \in {<<>>, TextHelloWorld} : PublicEncrypt(plaintext)
    \/ \E text \in HeldTexts : PublicDecrypt(text)
    \/ \E msg \in {TextHelloWorld, TextGoodbye} : PublicSign(msg)

SpecUnsupported == InitUnsupported /\ [][NextUnsupported]_vars

Unsupported(r) == r.outcome = "error" /\ r.err = ErrUnsupportedMethod /\ r.value = <<>>

\* C10: unsupported operations fail uniformly.  On an AES-CBC or AES-GCM key
\* Sign returns ErrUnsupportedMethod and an empty digest, Verify reports
\* failure and PublicKey returns ErrUnsupportedMethod and no key; on an
\* HMAC key and on an ECDSA private or public key Encrypt and Decrypt
\* return ErrUnsupportedMethod and an empty result; whatever the input.
UnsupportedUniform ==
    /\ (res.op = "Sign" /\ key.kind \in {"aesCbc", "aesGcm"}) => Unsupported(res)
    /\ (res.op = "Verify" /\ key.kind \in {"aesCbc", "aesGcm"}) => ~res.valid
    /\ (res.op = "PublicKey" /\ key.kind \in {"aesCbc", "aesGcm"})
          => (res.err = ErrUnsupportedMethod /\ res.got = NoKey /\ pub = NoKey)
    /\ (res.op \in {"Encrypt", "DecryptInput"} /\ key.kind \in {"hmac", "ecdsaPrivate"})
          => Unsupported(res)
    /\ (res.op \in {"PublicEncrypt", "PublicDecrypt"} /\ pub.kind = "ecdsaPublic")
          => Unsupported(res)

\* an HMAC key has refused to decrypt the digest it signed
UnsupportedWitness ==
    /\ res.op = "DecryptInput"
    /\ key.kind = "hmac"
    /\ env.made
    /\ env.by = key
    /\ res.input = env.text
    /\ res.err = ErrUnsupportedMethod

-----------------------------------------------------------------------------
(* SpecArgon2: a key signs, its configuration changes, and it verifies *)

\* the algorithm name the caller generates its key for
AlgArgon2 == <<65, 82, 71, 79, 78, 50>>

Opt(name, value) == [name |-> name, value |-> value]

\* an option argument that each option accepts
ArgonSettings ==
    <<Opt("WithMethod", MethodArgon2i), Opt("WithSaltSize", 8), Opt("WithTime", 2),
      Opt("WithMemory", 32 * 1024), Opt("WithThreads", 1), Opt("WithLength", 16)>>

\* the arguments of later calls of the options: the defaults, the settings
\* above, and one argument each that the option does not accept
ArgonOptions ==
    <<Opt("WithMethod", MethodArgon2i), Opt("WithMethod", MethodArgon2id),
      Opt("WithMethod", MethodScrypt),
      Opt("WithSaltSize", 0), Opt("WithSaltSize", 8), Opt("WithSaltSize", 16),
      Opt("WithTime", 0), Opt("WithTime", 1), Opt("WithTime", 2),
      Opt("WithMemory", 0), Opt("WithMemory", 32 * 1024), Opt("WithMemory", 64 * 1024),
      Opt("WithThreads", 0), Opt("WithThreads", 1), Opt("WithThreads", 4),
      Opt("WithLength", 0), Opt("WithLength", 16), Opt("WithLength", 32)>>

InitArgon2 ==
    /\ key \in {KeyGen(AlgArgon2, <<>>).key, KeyGen(AlgArgon2, ArgonSettings).key}
    /\ pub = NoKey
    /\ env = NoEnv
    /\ res = NoRes
    /\ NoCallerMemory

\* signature, err = key.Sign(msg)
ArgonSign(msg, r) ==
    /\ LET d == KeyImpl_Sign(key, msg, r)
       IN  /\ env' = IF d.outcome = "ok"
                     THEN [made |-> TRUE, text |-> d.value, pt |-> msg, by |-> key]
                     ELSE env
           /\ res' = Res("Sign", d, msg)
    /\ UNCHANGED <<key, pub, mem>>

\* err = opt(key)
ArgonOption(opt) ==
    /\ LET r == ApplyOption(key, opt)
       IN  /\ key' = r.key
           /\ res' = [op |-> "Option", outcome |-> IF r.err = "nil" THEN "ok" ELSE "error",
                      err |-> r.err, input |-> opt]
    /\ UNCHANGED <<pub, env, mem>>

\* ok, err = key.Verify(msg, signature)
ArgonVerify(msg, signature) ==
    /\ LET v == KeyImpl_Verify(key, msg, signature)
       IN  res' = [op |-> "Verify", outcome |-> v.outcome, err |-> v.err,
                   valid |-> v.valid, input |-> msg, digest |-> signature]
    /\ UNCHANGED <<key, pub, env, mem>>

NextArgon2 ==
    \/ \E msg \in {TextHelloWorld, TextGoodbye}, r \in RandChoices : ~env.made /\ ArgonSign(msg, r)
    \/ \E i \in DOMAIN ArgonOptions : env.made /\ ArgonOption(ArgonOptions[i])
    \/ \E msg \in {TextHelloWorld, TextGoodbye}, signature \in HeldTexts :
          ArgonVerify(msg, signature)

SpecArgon2 == InitArgon2 /\ [][NextArgon2]_vars

\* C5: Argon2 verification is forward compatible.  A signature s = k.Sign(m)
\* is accepted by k.Verify(m, s) after every later change of the
\* configuration of k by the options, the output length among them.
ArgonForwardCompatible ==
    (res.op = "Verify" /\ env.made /\ res.input = env.pt /\ res.digest = env.text)
        => (res.outcome = "ok" /\ res.valid)

-----------------------------------------------------------------------------
(* SpecRegistry: lookups in the algorithm registry, and their round trips *)

\* the highest offset above the base of a family that is looked up
MaxOffset == 12

\* the zero value, and every value from the base of a family upwards
LookupAlgorithms ==
    {0} \cup UNION {base..(base + MaxOffset) : base \in {HashType, SymmetricType, AsymmetricType}}

\* every declared identifier, the empty one and two that no one declared
LookupTypes == AlgorithmTypes \cup {"", "AES_CBC_512", "hmac_sha256"}

\* every Algorithm constant of a family
DeclaredAlgorithms == HmacAlgorithms \cup AesAlgorithms \cup EcdsaAlgorithms \cup RsaAlgorithms

\* typ = GetTypeByAlgorithm(a)
TypeByAlgorithm(a) ==
    /\ res' = [op |-> "GetTypeByAlgorithm", outcome |-> "ok", err |-> "nil",
               input |-> a, out |-> GetTypeByAlgorithm(a)]
    /\ UNCHANGED <<key, pub, env, mem>>

\* a = GetAlgorithmByType(typ)
AlgorithmByType(typ) ==
    /\ res' = [op |-> "GetAlgorithmByType", outcome |-> "ok", err |-> "nil",
               input |-> typ, out |-> GetAlgorithmByType(typ)]
    /\ UNCHANGED <<key, pub, env, mem>>

\* GetAlgorithmByType of the identifier the last lookup returned
AlgorithmOfLastType ==
    /\ res.op = "GetTypeByAlgorithm"
    /\ res' = [op |-> "AlgorithmOfType", outcome |-> "ok", err |-> "nil",
               input |-> res.input, via |-> res.out, out |-> GetAlgorithmByType(res.out)]
    /\ UNCHANGED <<key, pub, env, mem>>

\* GetTypeByAlgorithm of the algorithm the last lookup returned
TypeOfLastAlgorithm ==
    /\ res.op = "GetAlgorithmByType"
    /\ res' = [op |-> "TypeOfAlgorithm", outcome |-> "ok", err |-> "nil",
               input |-> res.input, via |-> res.out, out |-> GetTypeByAlgorithm(res.out)]
    /\ UNCHANGED <<key, pub, env, mem>>

NextRegistry ==
    \/ \E a \in LookupAlgorithms : TypeByAlgorithm(a)
    \/ \E typ \in LookupTypes : AlgorithmByType(typ)
    \/ AlgorithmOfLastType
    \/ TypeOfLastAlgorithm

SpecRegistry == InitAes /\ [][NextRegistry]_vars

\* C11: registry bijection.  GetTypeByAlgorithm and GetAlgorithmByType are
\* inverse on the registered set: the round trip through the identifier
\* returns every declared algorithm, the round trip through the algorithm
\* returns every declared identifier; no two declared algorithms share an
\* identifier or a numeric value; an undeclared algorithm has the empty
\* identifier and an undeclared identifier the algorithm zero, a lookup
\* never being an error.
RegistryBijection ==
    /\ res.outcome # "error"
    /\ (res.op = "GetTypeByAlgorithm" /\ res.input \in DeclaredAlgorithms)
          => res.out \in AlgorithmTypes
    /\ (res.op = "GetTypeByAlgorithm" /\ res.input \notin DeclaredAlgorithms) => res.out = ""
    /\ (res.op = "GetAlgorithmByType" /\ res.input \in AlgorithmTypes)
          => res.out \in DeclaredAlgorithms
    /\ (res.op = "GetAlgorithmByType" /\ res.input \notin AlgorithmTypes) => res.out = 0
    /\ (res.op = "AlgorithmOfType" /\ res.input \in DeclaredAlgorithms) => res.out = res.input
    /\ (res.op = "TypeOfAlgorithm" /\ res.input \in AlgorithmTypes) => res.out = res.input
    /\ \A a, b \in DeclaredAlgorithms :
          a # b => GetTypeByAlgorithm(a) # GetTypeByAlgorithm(b)
    /\ \A s, t \in AlgorithmTypes :
          s # t => GetAlgorithmByType(s) # GetAlgorithmByType(t)
    /\ Cardinality(DeclaredAlgorithms) = Cardinality(AlgorithmTypes)

\* the identifier of AesGcm256 has been taken back to AesGcm256
RegistryWitness ==
    /\ res.op = "AlgorithmOfType"
    /\ res.input = AesGcm256
    /\ res.via = "AES_GCM_256"
    /\ res.out = AesGcm256

-----------------------------------------------------------------------------
(* SpecImport, continued: algorithms an importer does not support *)

\* the algorithms the importer behind op builds keys for
SupportedBy(op) ==
    IF op = "aesKeyImportImpl.KeyImport" THEN AesAlgorithms
    ELSE IF op = "hmacShaKeyImportImpl.KeyImport" THEN HmacAlgorithms
    ELSE HmacAlgorithms \cup AesAlgorithms

\* C12: unsupported algorithms fail import with an error.  For non-empty
\* material (bytes or text), KeyImport with an ECDSA, RSA or unregistered
\* algorithm, aesKeyImportImpl.KeyImport with a non-AES algorithm and
\* hmacShaKeyImportImpl.KeyImport with a non-HMAC algorithm return an error
\* and no key, and do not panic.
UnsupportedAlgorithmRejected ==
    (/\ res.op \in ImportOps
     /\ res.raw.type \in {"bytes", "string"}
     /\ res.raw.data # <<>>
     /\ res.alg \notin SupportedBy(res.op))
        => (res.outcome = "error" /\ res.err # "nil" /\ res.got = NoKey /\ key = NoKey)

-----------------------------------------------------------------------------
(* SpecAesPeer, continued: the padding of what a key decrypts *)

\* the last byte of the data that AES-CBC key k decrypts the payload of a
\* well-formed envelope to, which Decrypt reads as the pad length
DecryptedLastByte(k, text) ==
    LET payload == PayloadOfEnvelope(text)
        paddedText == cbcDecrypt(KeySchedule(k.key), Take(payload, BlockSize),
                                 Drop(payload, BlockSize))
    IN  paddedText[Len(paddedText)]

\* C13: PKCS#7 pad-length validation.  When an AES-CBC key decrypts an
\* envelope of its algorithm (made under another key, say) and the last
\* byte of the decrypted data is 0 or greater than 16, Decrypt returns an
\* error and no plaintext: neither a truncated nor an unstripped plaintext,
\* nor a panic.
PadLengthValidated ==
    (/\ res.op = "Decrypt"
     /\ env.made
     /\ key.kind = "aesCbc"
     /\ key.algorithm = env.by.algorithm
     /\ DecryptedLastByte(key, env.text) \notin 1..BlockSize)
        => (res.outcome = "error" /\ res.err # "nil" /\ res.value = <<>>)

-----------------------------------------------------------------------------
(* SpecCodec: the envelopes keys write, and the texts Decrypt is given *)

\* texts with no '.', with a tag that is no number, with the tag of another
\* or of no algorithm, and with the tag of k before a payload that is no
\* standard base64 (a character outside the alphabet, a missing or a
\* misplaced padding); a signed tag and a payload with a line break
CodecInputs(k) ==
    {<<>>, TextIncorrect, Itoa(k.algorithm),
     <<46>>, <<46>> \o EncodeToString(PayloadOf(32)),
     <<97, 98, 99, 46>> \o EncodeToString(PayloadOf(32)),
     Itoa(k.algorithm) \o <<120, 46>> \o EncodeToString(PayloadOf(32)),
     <<32>> \o Itoa(k.algorithm) \o <<46>> \o EncodeToString(PayloadOf(32)),
     <<43>> \o Itoa(k.algorithm) \o <<46>> \o EncodeToString(PayloadOf(32)),
     Itoa(k.algorithm + 1) \o <<46>> \o EncodeToString(PayloadOf(32)),
     Itoa(k.algorithm + 1) \o <<46, 33, 33, 33, 33>>,
     <<48, 46, 33, 33, 33, 33>>,
     Itoa(k.algorithm) \o <<46, 33, 33, 33, 33>>,
     Itoa(k.algorithm) \o <<46, 65, 65, 65>>,
     Itoa(k.algorithm) \o <<46, 65, 61, 65, 65>>,
     Itoa(k.algorithm) \o <<46, 65, 65, 46, 65>>,
     Itoa(k.algorithm) \o <<46>> \o RawEncodeToString(PayloadOf(32)),
     Itoa(k.algorithm) \o <<46, 10>> \o EncodeToString(PayloadOf(32))}

\* one scenario: import a key, try texts on it, have it write one envelope
NextCodec ==
    \/ \E raw \in {String(Text123456), Bytes(Material(16))},
          alg \in HmacAlgorithms \cup AesAlgorithms : ~env.made /\ Import(raw, alg)
    \/ \E plaintext \in {<<>>, TextHelloWorld, PlainOf(BlockSize)}, r \in RandChoices :
          ~env.made /\ Encrypt(plaintext, r)
    \/ \E msg \in {<<>>, TextHelloWorld} : ~env.made /\ Sign(msg, 0)
    \/ \E text \in CodecInputs(key) : ~env.made /\ DecryptInput(text)

SpecCodec == InitAes /\ [][NextCodec]_vars

\* text is a decimal number with no sign and no leading zero, a '.', and the
\* standard base64 of a payload of one of the lengths in sizes
WellFormedEnvelope(text, algorithm, sizes) ==
    LET parts == SplitN2(text, 46)
    IN  /\ Len(parts) = 2
        /\ Len(parts[1]) > 0
        /\ \A i \in 1..Len(parts[1]) : IsDigit(parts[1][i])
        /\ parts[1][1] # 48
        /\ DigitsValue(parts[1]) = algorithm
        /\ LET payload == DecodeString(parts[2])
           IN  /\ payload.ok
               /\ Len(payload.data) \in sizes
               /\ Len(parts[2]) = 4 * ((Len(payload.data) + 2) \div 3)
               /\ \A i \in 1..Len(parts[2]) : parts[2][i] \notin {10, 13}
               /\ EncodeToString(payload.data) = parts[2]

\* the payload lengths of a key of each kind: IV and whole blocks, nonce and
\* sealed plaintext, one digest
PayloadSizes(k, input) ==
    IF k.kind = "aesCbc"
    THEN {BlockSize + (BlockSize * ((Len(input) \div BlockSize) + 1))}
    ELSE IF k.kind = "aesGcm" THEN {GcmNonceSize + Len(input) + GcmTagSize}
    ELSE IF k.algorithm = HmacSha256 THEN {Sha256Size}
    ELSE {Sha512Size}

\* C14: wire codec structure.  Every envelope that Encrypt on an AES-CBC or
\* AES-GCM key or Sign on an HMAC key returns is the decimal algorithm ID of
\* the key, one '.', and the standard base64 of the payload.  Decrypt on an
\* AES key returns an error for every text with no '.', every text whose
\* part before the first '.' is no integer, and every text whose part after
\* the first '.' is no standard base64; it checks the number of parts, then
\* the number, then the algorithm, then the base64.
WireCodec ==
    /\ (res.op \in {"Encrypt", "Sign"} /\ res.outcome = "ok")
          => WellFormedEnvelope(res.value, key.algorithm, PayloadSizes(key, res.input))
    /\ (res.op = "DecryptInput" /\ key.kind \in {"aesCbc", "aesGcm"})
          => LET parts == SplitN2(res.input, 46)
             IN  /\ IndexByte(res.input, 46) = 0
                       => (res.outcome = "error" /\ res.err = ErrInvalidData)
                 /\ (Len(parts) = 2 /\ ~Atoi(parts[1]).ok)
                       => (res.outcome = "error" /\ res.err = ErrTypeNotNumber)
                 /\ (Len(parts) = 2 /\ Atoi(parts[1]).ok /\ Atoi(parts[1]).n # key.algorithm)
                       => (res.outcome = "error" /\ res.err = ErrInvalidAlgorithm)
                 /\ (Len(parts) = 2 /\ Atoi(parts[1]).ok /\ Atoi(parts[1]).n = key.algorithm
                     /\ ~DecodeString(parts[2]).ok)
                       => (res.outcome = "error" /\ res.err = ErrBase64)

\* an AES-CBC key has written an envelope for "hello world"
WireCodecWitness ==
    /\ res.op = "Encrypt"
    /\ res.outcome = "ok"
    /\ key.algorithm = AesCbc256
    /\ res.input = TextHelloWorld
    /\ Take(res.value, 4) = <<50, 48, 51, 46>>

-----------------------------------------------------------------------------
(* SpecAlias: a key imported from a byte array the caller goes on writing to *)

AliasBuffers == {Text123456, Material(BlockSize)}

\* the bytes the caller writes, and where
WriteValues == {0, 255}
WritePositions(n) == {1, n}

InitAlias ==
    /\ key = NoKey
    /\ pub = NoKey
    /\ env = NoEnv
    /\ res = NoRes
    /\ buf \in AliasBuffers
    /\ keyShares = FALSE
    /\ calls = <<>>

\* key, err = KeyImport[T](buf, alg)
ImportBuf(alg) ==
    LET r == KeyImport(Bytes(buf), alg)
    IN  /\ key' = r.key
        /\ keyShares' = KeyImportShares(Bytes(buf), alg)
        /\ res' = ImportRes("KeyImport", r, Bytes(buf), alg)
        /\ UNCHANGED <<pub, env, buf, calls>>

\* buf[i] = b, by the caller: a write to the array, hence to every slice of it
WriteBuf(i, b) ==
    /\ key # NoKey
    /\ buf' = [buf EXCEPT ![i] = b]
    /\ key' = IF keyShares THEN [key EXCEPT !.key = [@ EXCEPT ![i] = b]] ELSE key
    /\ res' = [op |-> "WriteBuf", outcome |-> "ok", err |-> "nil", input |-> <<i, b>>]
    /\ UNCHANGED <<pub, env, keyShares, calls>>

\* ski = key.SKI()
SKI ==
    /\ key # NoKey
    /\ res' = [op |-> "SKI", outcome |-> "ok", err |-> "nil", value |-> Key_SKI(key)]
    /\ UNCHANGED <<key, pub, env, mem>>

\* hex, err = key.Bytes()
KeyBytes ==
    /\ key # NoKey
    /\ res' = [op |-> "Bytes", outcome |-> "ok", err |-> "nil", value |-> Key_Bytes(key)]
    /\ UNCHANGED <<key, pub, env, mem>>

\* one scenario: the caller imports keys from its array, has the last one
\* sign or encrypt once, and from then on only uses that key; it writes to
\* its array at any time
NextAlias ==
    \/ \E alg \in HmacAlgorithms \cup AesAlgorithms : ~env.made /\ ImportBuf(alg)
    \/ \E i \in WritePositions(Len(buf)), b \in WriteValues : WriteBuf(i, b)
    \/ ~env.made /\ Sign(TextHelloWorld, 0)
    \/ ~env.made /\ Encrypt(TextHelloWorld, 0)
    \/ env.made /\ Verify(env.pt, env.text)
    \/ DecryptEnv
    \/ SKI
    \/ KeyBytes

SpecAlias == InitAlias /\ [][NextAlias]_vars

\* C15: key immutability after import.  Once KeyImport has returned a key
\* built from the caller's byte array, its material and algorithm stay what
\* they were, whatever the caller calls on it and whatever it writes to the
\* array later: the key is still the key that signed or encrypted (no
\* import follows that call here), it verifies what it signed and decrypts
\* what it encrypted, and SKI() is still the SKI of that key.
KeyImmutable ==
    /\ env.made => key = env.by
    /\ (res.op = "Verify" /\ env.made /\ res.input = env.pt /\ res.digest = env.text)
          => res.valid
    /\ (res.op = "Decrypt" /\ env.made) => (res.outcome = "ok" /\ res.value = env.pt)
    /\ (res.op = "SKI" /\ env.made) => res.value = Key_SKI(env.by)

-----------------------------------------------------------------------------
(* SpecShared: two Encrypt calls on one AES-CBC key, their plaintexts two
   slices buf[off : off+len] of one array of the caller.  Each call is two
   steps, the padding (aes.go line 51) and the rest, which reads the padded
   text (line 67); the steps of the two calls interleave in every order. *)

\* the caller's array, of n bytes
CallerArray(n) == AsSeq([j \in 1..n |-> 64 + j])

ArraySizes == {10, 16, 32}

\* <<off, len>> of the two plaintexts
Layouts == {<<<<0, 5>>, <<5, 5>>>>, <<<<0, 10>>, <<0, 10>>>>, <<<<0, 3>>, <<3, 7>>>>}

\* the call Encrypt(buf[off : off+len]) before its first step
NewCall(array, range) ==
    [pc |-> "pad", off |-> range[1], len |-> range[2],
     given |-> SubSeq(array, range[1] + 1, range[1] + range[2]),
     shared |-> FALSE, paddedLen |-> 0, own |-> <<>>, out |-> Fail("nil", "none")]

InitShared ==
    /\ \E alg \in AesCbcAlgorithms : key = KeyImport(String(Text123456), alg).key
    /\ pub = NoKey
    /\ env = NoEnv
    /\ res = NoRes
    /\ keyShares = FALSE
    /\ \E n \in ArraySizes, layout \in Layouts :
          /\ buf = CallerArray(n)
          /\ calls = <<NewCall(buf, layout[1]), NewCall(buf, layout[2])>>

\* paddedText := pkcs7Padding(plaintext, aes.BlockSize): the plaintext is a
\* slice of capacity len(buf) - off, and append writes the padding behind it
\* into buf when it fits
Pad(c) ==
    LET call == calls[c]
        plaintext == SubSeq(buf, call.off + 1, call.off + call.len)
        paddedText == pkcs7Padding(plaintext, BlockSize)
        inPlace == appendInPlace(call.len, Len(buf) - call.off,
                                 Len(paddedText) - call.len)
    IN  /\ call.pc = "pad"
        /\ buf' = IF inPlace
                  THEN AsSeq([j \in 1..Len(buf) |->
                                 IF j > call.off + call.len /\ j <= call.off + Len(paddedText)
                                 THEN paddedText[j - call.off] ELSE buf[j]])
                  ELSE buf
        /\ calls' = [calls EXCEPT ![c] =
                        [@ EXCEPT !.pc = "crypt", !.shared = inPlace,
                                  !.paddedLen = Len(paddedText),
                                  !.own = IF inPlace THEN <<>> ELSE paddedText]]
        /\ UNCHANGED <<key, pub, env, res, keyShares>>

\* the rest of Encrypt: CryptBlocks reads paddedText, which is a slice of buf
\* when the padding was appended in place
Crypt(c, r) ==
    LET call == calls[c]
        paddedText == IF call.shared
                      THEN SubSeq(buf, call.off + 1, call.off + call.paddedLen)
                      ELSE call.own
    IN  /\ call.pc = "crypt"
        /\ calls' = [calls EXCEPT ![c] =
                        [@ EXCEPT !.pc = "done",
                                  !.out = aesCbcKeyImpl_EncryptPadded(key, paddedText, r)]]
        /\ UNCHANGED <<key, pub, env, res, buf, keyShares>>

NextShared ==
    \/ \E c \in DOMAIN calls : Pad(c)
    \/ \E c \in DOMAIN calls, r \in RandChoices : Crypt(c, r)

SpecShared == InitShared /\ [][NextShared]_vars

\* C16: Encrypt does not write to caller memory.  AES-CBC Encrypt on a slice
\* of the caller's array leaves every byte of the array as it was, spare
\* capacity behind the plaintext included, and under every interleaving of
\* two such calls on one key each envelope returned decrypts to the
\* plaintext its call was given.
EncryptLeavesCallerMemory ==
    /\ buf = CallerArray(Len(buf))
    /\ \A c \in DOMAIN calls :
          (calls[c].pc = "done" /\ calls[c].out.outcome = "ok")
             => /\ Key_Decrypt(key, calls[c].out.value).outcome = "ok"
                /\ Key_Decrypt(key, calls[c].out.value).value = calls[c].given

=============================================================================
